---- MODULE Spec2Model ----
(***************************************************************************)
(* FocusFlow: the VideoAttentionTracker component (attention session       *)
(* controller).  React state, refs, the closures captured by effects and   *)
(* by the YouTube player, the live window.setInterval timers and the two   *)
(* playback sources are the state; every handler, effect and timer         *)
(* callback is an action.  A handler action includes the render it causes  *)
(* and the effects (cleanup, then run) whose dependencies changed.         *)
(* Times are in tenths of a second.                                        *)
(***************************************************************************)
EXTENDS Integers, Sequences, FiniteSets, TLC

\* ---- bounds of the model -------------------------------------------------
MaxSamples == 2          \* longest Series Buffer explored
MaxInFlight == 1         \* start requests awaiting their response at once

\* ---- program constants (tenths of a second) ------------------------------
SEEK_TOLERANCE == 5
YOUTUBE_SEEK_THRESHOLD == 10

\* ---- value sets ----------------------------------------------------------
Times == {0, 14}                     \* playback positions the sources take
GuardTimes == {0, 90, 95, 96, 100}   \* positions around 10.0 s
YTGuardTimes == {0, 89, 90, 100}     \* positions around 10.0 s - 1 s
NoAttention == -1                    \* null of number | null
Throws == -1                         \* a call that raised instead of returning
AttentionValues == {0, 7}            \* rel_attention, tenths
SessionAttention == {7}              \* the readings the session runs see
Undefined == -1                      \* a field absent from an event
NoVideo == <<>>                      \* videoId === null
NoUrl == 0                           \* uploadedVideoUrl === null
NoTimer == 0                         \* interval ref === null

Markers == {"youtube.com/watch?v=", "youtu.be/", "youtube.com/embed/"}
StopChars == {"&", "\n", "?", "#"}
Urls == { <<"youtu.be/", "A">>,
          <<"youtube.com/watch?v=", "B", "&", "t">>,
          <<"vimeo.com/", "A">>,
          <<"youtu.be/">> }
FileInputs == { [present |-> FALSE, type |-> <<>>],
                [present |-> TRUE, type |-> <<"video", "/", "mp4">>],
                [present |-> TRUE, type |-> <<"image", "/", "png">>],
                [present |-> TRUE, type |-> <<"video">>] }
EmotionsEvents ==
  [type : {"emotions", "signal"},
   calibration_percent : {Undefined, 50, 100},
   rel_attention : {Undefined} \cup AttentionValues]
\* the events of a session run: calibration progress and completion, an event
\* with no fields, a reading, and a message of another type
SessionEvents ==
  {e \in EmotionsEvents :
     \/ e.type = "emotions" /\ e.rel_attention = Undefined
     \/ e.calibration_percent = Undefined /\ e.rel_attention \in SessionAttention}
YTStates == {"unstarted", "playing", "paused", "buffering", "ended"}
\* the outcomes of POST /api/start/emotions: the stream started; the server
\* answered with an error status or success: false in a JSON body; the fetch
\* or the parsing of the body failed
StartResponses == {"success", "refused", "throws"}

\* the WebSocket objects that can exist at once (connecting, open or closing)
MaxSockets == 3
SocketIds == 1..MaxSockets
TimeoutIds == 1..MaxSockets
NoSocket == 0
\* WebSocketService.reconnectInterval, in ms
reconnectInterval == 5000

\* the message handlers components register, and the text frames a socket can
\* receive: not JSON; a 'signal' message; an 'emotions' message; an 'emotions'
\* message without a data field; the JSON text null
Handlers == {"VideoAttentionTracker", "SignalViewer"}
Frames == {"garbage", "signal", "emotions", "emotionsNoData", "null"}

\* SignalViewer: maxDataPoints, the samples counted over a run, the number of
\* samples one 'signal' message can carry
maxDataPoints == 100
MaxReceived == 150
SampleCounts == {0, 1, 2, 7, 101}
SignalMessages == [type : {"signal", "resist"}, isArray : BOOLEAN, count : SampleCounts]

VARIABLES
  \* React state
  videoId, player, isStreaming, isCalibrated, calibrationPercent,
  attentionData, showGraph, currentAttention, errorMessage, videoMode,
  uploadedVideoUrl,
  \* refs
  playerRef, trackingIntervalRef, currentAttentionRef, lastYouTubeTimeRef,
  youtubeSeekCheckIntervalRef,
  \* closures captured by effects
  ytCap, fileCap, unmountCap, lastValidTime, listeners,
  \* environment
  mounted, ytApiLoaded, timers, yt, video, pendingReady, pendingUpload,
  lastStreamReq,
  \* history: the interval callback or seek listener the last step ran (if it
  \* ran one); whether the current source was assigned to a finished session
  \* and has not played yet; which completing metric events were delivered
  ev, roundTrip, seen,
  \* WebSocketService: its fields, the state of every WebSocket it created and
  \* the pending setTimeout callbacks
  ws, reconnectTimer, shouldReconnect, sockets, wsTimers,
  \* WebSocketService.messageHandlers in insertion order, and the handlers the
  \* last onmessage invoked, in the order of the calls
  messageHandlers, invoked,
  \* SignalViewer: its buffer of points, each point identified by its arrival
  \* number; history: the number of samples that arrived in 'signal' arrays
  signalData, received

reactVars == <<videoId, player, isStreaming, isCalibrated, calibrationPercent,
               attentionData, showGraph, currentAttention, errorMessage,
               videoMode, uploadedVideoUrl>>
refVars == <<playerRef, trackingIntervalRef, currentAttentionRef,
             lastYouTubeTimeRef, youtubeSeekCheckIntervalRef>>
capVars == <<ytCap, fileCap, unmountCap, lastValidTime, listeners>>
envVars == <<mounted, ytApiLoaded, timers, yt, video, pendingReady,
             pendingUpload, lastStreamReq>>
histVars == <<ev, roundTrip, seen>>
trackerVars == <<reactVars, refVars, capVars, envVars, histVars>>
connVars == <<ws, reconnectTimer, shouldReconnect, sockets, wsTimers>>
wsVars == <<connVars, messageHandlers, invoked>>
signalVars == <<signalData, received>>
vars == <<trackerVars, wsVars, signalVars>>

\* ---- pure helpers --------------------------------------------------------
Ev(name) == [name |-> IF name \in {"tick", "seeking"} THEN name ELSE "other",
             arg |-> 0]
Max(a, b) == IF a >= b THEN a ELSE b

\* Math.round on a non-negative time in tenths, result in whole seconds
MathRound(t) == (t + 5) \div 10

\* ApiService.startDataStream: TRUE when the awaited call returns (fetch does
\* not reject on an error status and the body is not inspected), FALSE when
\* it raises
startDataStream(res) == res # "throws"

\* String.prototype.startsWith on token sequences
StartsWith(s, prefix) ==
  /\ Len(s) >= Len(prefix)
  /\ \A i \in 1..Len(prefix) : s[i] = prefix[i]

\* the longest run of non-stop tokens of url starting at position i
RECURSIVE IdRun(_, _)
IdRun(url, i) ==
  IF i > Len(url) \/ url[i] \in StopChars THEN <<>>
  ELSE <<url[i]>> \o IdRun(url, i + 1)

\* first match of /(?:marker)([^&\n?#]+)/ in url, or null
extractVideoId(url) ==
  LET hits == {i \in 1..Len(url) :
                 /\ url[i] \in Markers
                 /\ i + 1 <= Len(url)
                 /\ url[i + 1] \notin StopChars}
  IN IF hits = {} THEN NoVideo
     ELSE IdRun(url, 1 + CHOOSE i \in hits : \A j \in hits : i <= j)

\* the value of `player` a closure created in this render will later see:
\* the player object of the previous video (destroyed by then), or null
Captured(p) == IF p = "null" THEN "null" ELSE "old"

NewPlayer == [destroyed |-> FALSE, ready |-> FALSE, state |-> "unstarted", time |-> 0]
\* a destroyed player: what its clock reads afterwards is not defined
DestroyedPlayer == [destroyed |-> TRUE, ready |-> FALSE, state |-> "unstarted", time |-> 0]
NewVideo == [state |-> "paused", time |-> 0, seeking |-> FALSE]

YTLive == playerRef = "cur" /\ ~yt.destroyed
\* htmlVideoRef.current: the <video> element is rendered
htmlVideoRef == mounted /\ videoMode = "file" /\ uploadedVideoUrl # NoUrl

\* window.setInterval returns an id no live timer has.  Only the identity of
\* an id matters, so the sampling timers take the odd ids and the seek-check
\* pollers the even ones, each the smallest that is free among the timers ts.
FreshId(ts, kind) ==
  LET ids == {t.id : t \in ts}
      mine == {n \in 1..(2 * Cardinality(ids) + 2) :
                 n \notin ids /\ (n % 2 = 1) = (kind = "track")}
  IN CHOOSE n \in mine : \A m \in mine : n <= m

clearInterval(ts, id) == {t \in ts : t.id # id}

\* player.getCurrentTime(): the values the call can produce on object p
GetCurrentTime(p) ==
  IF p = "cur" /\ YTLive /\ yt.ready THEN {yt.time}
  ELSE IF p = "cur" /\ YTLive THEN {Throws}
  ELSE {Throws} \cup Times

TypeOK ==
  /\ videoId \in {NoVideo, <<"A">>, <<"B">>}
  /\ player \in {"null", "cur"}
  /\ isStreaming \in BOOLEAN /\ isCalibrated \in BOOLEAN
  /\ calibrationPercent \in {0, 50, 100}
  /\ Len(attentionData) <= MaxSamples
  /\ showGraph \in BOOLEAN
  /\ currentAttention \in {NoAttention} \cup AttentionValues
  /\ errorMessage \in {"null", "url", "file", "stream"}
  /\ videoMode \in {"youtube", "file"}
  /\ uploadedVideoUrl \in {NoUrl, 1, 2}
  /\ playerRef \in {"null", "cur"}
  /\ currentAttentionRef = currentAttention
  /\ lastYouTubeTimeRef \in Times \cup YTGuardTimes
  /\ lastValidTime \in Times \cup GuardTimes
  /\ mounted \in BOOLEAN /\ ytApiLoaded \in BOOLEAN
  /\ Len(pendingReady) + pendingUpload <= MaxInFlight
  /\ lastStreamReq \in {"none", "start", "stop"}
  /\ ws \in SocketIds \cup {NoSocket}
  /\ reconnectTimer \in TimeoutIds \cup {NoTimer}
  /\ shouldReconnect \in BOOLEAN
  /\ sockets \in [SocketIds -> {"none", "connecting", "open", "closing"}]
  /\ wsTimers \subseteq [id : TimeoutIds, delay : {reconnectInterval}]
  /\ messageHandlers \in Seq(Handlers) /\ invoked \in Seq(Handlers)
  /\ received \in 0..MaxReceived
  /\ signalData \in Seq(1..MaxReceived) /\ Len(signalData) <= maxDataPoints

\* ---- initial state: the component has just mounted ----------------------
Init ==
  /\ videoId = NoVideo /\ player = "null"
  /\ isStreaming = FALSE /\ isCalibrated = FALSE /\ calibrationPercent = 0
  /\ attentionData = <<>> /\ showGraph = FALSE
  /\ currentAttention = NoAttention /\ errorMessage = "null"
  /\ videoMode = "youtube" /\ uploadedVideoUrl = NoUrl
  /\ playerRef = "null" /\ trackingIntervalRef = NoTimer
  /\ currentAttentionRef = NoAttention /\ lastYouTubeTimeRef = 0
  /\ youtubeSeekCheckIntervalRef = NoTimer
  /\ ytCap = [videoMode |-> "youtube", player |-> "null", isStreaming |-> FALSE]
  /\ fileCap = [videoMode |-> "youtube", player |-> "null"]
  /\ unmountCap = [isStreaming |-> FALSE, uploadedVideoUrl |-> NoUrl]
  /\ lastValidTime = 0 /\ listeners = FALSE
  /\ mounted = TRUE /\ ytApiLoaded \in BOOLEAN
  /\ timers = {} /\ yt = NewPlayer /\ video = NewVideo
  /\ pendingReady = <<>> /\ pendingUpload = 0
  /\ lastStreamReq = "none"
  /\ ev = Ev("mount") /\ roundTrip = FALSE
  /\ seen = [completion |-> FALSE, attention |-> FALSE]
  /\ ws = NoSocket /\ reconnectTimer = NoTimer /\ shouldReconnect = TRUE
  /\ sockets = [i \in SocketIds |-> "none"] /\ wsTimers = {}
  /\ messageHandlers = <<>> /\ invoked = <<>>
  /\ signalData = <<>> /\ received = 0

\* ---- history ---------------------------------------------------------------
\* the playback state of the source on screen is "playing"
Playing ==
  \/ videoMode = "youtube" /\ YTLive /\ yt.state = "playing"
  \/ htmlVideoRef /\ video.state = "playing"

\* the session ended with samples recorded and is not being played again
FinishedWithSamples == showGraph /\ attentionData # <<>> /\ ~Playing

\* a step that is neither a source assignment, a play nor a metric event
Dispatched(name) ==
  /\ ev' = Ev(name)
  /\ UNCHANGED <<roundTrip, seen>>

\* ---- the sampling timer ---------------------------------------------------
\* the pair (live timers, trackingIntervalRef.current) the two functions act on
TrackState == [timers |-> timers, ref |-> trackingIntervalRef]

\* startAttentionTracking without the clearInterval of the running interval
startAttentionTracking_noClear(tr, cap) ==
  LET id == FreshId(tr.timers, "track")
  IN [timers |-> tr.timers \cup {[id |-> id, kind |-> "track",
                                  videoMode |-> cap.videoMode, player |-> cap.player]},
      ref |-> id]

\* startAttentionTracking that clears the running interval and sets none
startAttentionTracking_onlyClears(tr, cap) ==
  [timers |-> IF tr.ref # NoTimer THEN clearInterval(tr.timers, tr.ref) ELSE tr.timers,
   ref |-> NoTimer]

startAttentionTracking(tr, cap) ==
  LET cleared == IF tr.ref # NoTimer THEN clearInterval(tr.timers, tr.ref) ELSE tr.timers
      id == FreshId(cleared, "track")
  IN [timers |-> cleared \cup {[id |-> id, kind |-> "track",
                                videoMode |-> cap.videoMode, player |-> cap.player]},
      ref |-> id]

\* stopAttentionTracking clearing every interval when none is registered
stopAttentionTracking_clearsAll(tr) ==
  IF tr.ref # NoTimer
  THEN [timers |-> clearInterval(tr.timers, tr.ref), ref |-> NoTimer]
  ELSE [timers |-> {}, ref |-> NoTimer]

\* stopAttentionTracking that drops the ref without clearing the interval
stopAttentionTracking_noClear(tr) == [timers |-> tr.timers, ref |-> NoTimer]

stopAttentionTracking(tr) ==
  IF tr.ref # NoTimer
  THEN [timers |-> clearInterval(tr.timers, tr.ref), ref |-> NoTimer]
  ELSE tr

\* clearInterval(youtubeSeekCheckIntervalRef.current) guarded by the ref
ClearSeekCheck(ts) ==
  IF youtubeSeekCheckIntervalRef # NoTimer
  THEN clearInterval(ts, youtubeSeekCheckIntervalRef)
  ELSE ts

\* ---- effects -------------------------------------------------------------
\* useEffect[videoId]: cleanup destroys the player; the run creates one
PlayerEffect(newId, newMode) ==
  IF newId = videoId
  THEN UNCHANGED <<playerRef, player, yt, ytCap, lastYouTubeTimeRef>>
  ELSE IF newId # NoVideo /\ ytApiLoaded
  THEN /\ playerRef' = "cur" /\ player' = "cur"
       /\ yt' = NewPlayer
       /\ ytCap' = [videoMode |-> newMode, player |-> Captured(player),
                    isStreaming |-> isStreaming]
       /\ lastYouTubeTimeRef' = 0
  ELSE /\ yt' = IF playerRef # "null"
                THEN DestroyedPlayer
                ELSE yt
       /\ UNCHANGED <<playerRef, player, ytCap, lastYouTubeTimeRef>>

\* useEffect[uploadedVideoUrl, videoMode]: the HTML5 video listeners
FileEffect(newUrl, newMode) ==
  IF newUrl = uploadedVideoUrl /\ newMode = videoMode
  THEN UNCHANGED <<listeners, lastValidTime, fileCap, video>>
  ELSE /\ video' = NewVideo
       /\ IF newMode = "file" /\ newUrl # NoUrl
          THEN /\ listeners' = TRUE
               /\ lastValidTime' = 0
               /\ fileCap' = [videoMode |-> newMode, player |-> Captured(player)]
          ELSE /\ listeners' = FALSE
               /\ UNCHANGED <<lastValidTime, fileCap>>

\* the cleanup returned by useEffect[uploadedVideoUrl] ("Cleanup on unmount")
UnmountCleanup(req) ==
  LET r == stopAttentionTracking(TrackState)
  IN /\ timers' = ClearSeekCheck(r.timers)
     /\ trackingIntervalRef' = r.ref
     /\ lastStreamReq' = IF unmountCap.isStreaming THEN "stop" ELSE req

\* useEffect[uploadedVideoUrl]: cleanup of the old closure, then a new one
UnmountEffect(newUrl, req) ==
  IF newUrl = uploadedVideoUrl
  THEN /\ lastStreamReq' = req
       /\ UNCHANGED <<timers, trackingIntervalRef, unmountCap>>
  ELSE /\ UnmountCleanup(req)
       /\ unmountCap' = [isStreaming |-> isStreaming, uploadedVideoUrl |-> newUrl]

\* ---- video source assignment ---------------------------------------------
\* handleUrlSubmit without setShowGraph(false) and setAttentionData([])
handleUrlSubmit_keepsSeries(url) ==
  /\ mounted /\ videoMode = "youtube"
  /\ LET id == extractVideoId(url) IN
       IF id # NoVideo
       THEN /\ videoId' = id
            /\ UNCHANGED <<showGraph, attentionData>>
            /\ errorMessage' = "null"
            /\ PlayerEffect(id, videoMode)
       ELSE /\ errorMessage' = "url"
            /\ UNCHANGED <<videoId, showGraph, attentionData, playerRef, player,
                           yt, ytCap, lastYouTubeTimeRef>>
  /\ ev' = Ev("urlSubmit")
  /\ roundTrip' = IF extractVideoId(url) # NoVideo THEN FinishedWithSamples ELSE roundTrip
  /\ seen' = seen
  /\ UNCHANGED <<isStreaming, isCalibrated, calibrationPercent, currentAttention,
                 videoMode, uploadedVideoUrl, trackingIntervalRef,
                 currentAttentionRef, youtubeSeekCheckIntervalRef, fileCap,
                 unmountCap, lastValidTime, listeners, mounted, ytApiLoaded,
                 timers, video, pendingReady, pendingUpload, lastStreamReq>>
  /\ UNCHANGED <<wsVars, signalVars>>

\* handleUrlSubmit that also resets the series when the URL is rejected
handleUrlSubmit_resetsOnError(url) ==
  /\ mounted /\ videoMode = "youtube"
  /\ LET id == extractVideoId(url) IN
       IF id # NoVideo
       THEN /\ videoId' = id
            /\ showGraph' = FALSE
            /\ attentionData' = <<>>
            /\ errorMessage' = "null"
            /\ PlayerEffect(id, videoMode)
       ELSE /\ errorMessage' = "url"
            /\ showGraph' = FALSE
            /\ attentionData' = <<>>
            /\ UNCHANGED <<videoId, playerRef, player, yt, ytCap,
                           lastYouTubeTimeRef>>
  /\ ev' = Ev("urlSubmit")
  /\ roundTrip' = IF extractVideoId(url) # NoVideo THEN FinishedWithSamples ELSE roundTrip
  /\ seen' = seen
  /\ UNCHANGED <<isStreaming, isCalibrated, calibrationPercent, currentAttention,
                 videoMode, uploadedVideoUrl, trackingIntervalRef,
                 currentAttentionRef, youtubeSeekCheckIntervalRef, fileCap,
                 unmountCap, lastValidTime, listeners, mounted, ytApiLoaded,
                 timers, video, pendingReady, pendingUpload, lastStreamReq>>
  /\ UNCHANGED <<wsVars, signalVars>>

handleUrlSubmit(url) ==
  /\ mounted /\ videoMode = "youtube"
  /\ LET id == extractVideoId(url) IN
       IF id # NoVideo
       THEN /\ videoId' = id
            /\ showGraph' = FALSE
            /\ attentionData' = <<>>
            /\ errorMessage' = "null"
            /\ PlayerEffect(id, videoMode)
       ELSE /\ errorMessage' = "url"
            /\ UNCHANGED <<videoId, showGraph, attentionData, playerRef, player,
                           yt, ytCap, lastYouTubeTimeRef>>
  /\ ev' = Ev("urlSubmit")
  /\ roundTrip' = IF extractVideoId(url) # NoVideo THEN FinishedWithSamples ELSE roundTrip
  /\ seen' = seen
  /\ UNCHANGED <<isStreaming, isCalibrated, calibrationPercent, currentAttention,
                 videoMode, uploadedVideoUrl, trackingIntervalRef,
                 currentAttentionRef, youtubeSeekCheckIntervalRef, fileCap,
                 unmountCap, lastValidTime, listeners, mounted, ytApiLoaded,
                 timers, video, pendingReady, pendingUpload, lastStreamReq>>
  /\ UNCHANGED <<wsVars, signalVars>>

handleFileUpload(file) ==
  /\ mounted /\ videoMode = "file"
  /\ ev' = Ev("fileUpload")
  /\ roundTrip' = IF file.present /\ StartsWith(file.type, <<"video", "/">>)
                  THEN FinishedWithSamples ELSE roundTrip
  /\ seen' = seen
  /\ IF ~file.present
     THEN UNCHANGED <<reactVars, refVars, capVars, envVars>>
     ELSE IF ~StartsWith(file.type, <<"video", "/">>)
     THEN /\ errorMessage' = "file"
          /\ UNCHANGED <<videoId, player, isStreaming, isCalibrated,
                         calibrationPercent, attentionData, showGraph,
                         currentAttention, videoMode, uploadedVideoUrl,
                         refVars, capVars, envVars>>
     ELSE LET url == IF uploadedVideoUrl = 1 THEN 2 ELSE 1 IN
          /\ uploadedVideoUrl' = url
          /\ videoMode' = "file"
          /\ videoId' = NoVideo
          /\ showGraph' = FALSE
          /\ attentionData' = <<>>
          /\ errorMessage' = "null"
          /\ PlayerEffect(NoVideo, "file")
          /\ FileEffect(url, "file")
          /\ IF ~isStreaming
             THEN /\ Len(pendingReady) + pendingUpload < MaxInFlight
                  /\ pendingUpload' = pendingUpload + 1
                  /\ UnmountEffect(url, "start")
             ELSE /\ pendingUpload' = pendingUpload
                  /\ UnmountEffect(url, lastStreamReq)
          /\ UNCHANGED <<isStreaming, isCalibrated, calibrationPercent,
                         currentAttention, currentAttentionRef,
                         youtubeSeekCheckIntervalRef, mounted, ytApiLoaded,
                         pendingReady>>
  /\ UNCHANGED <<wsVars, signalVars>>

\* the continuation of handleFileUpload after `await startDataStream`
UploadStartResolved(res) ==
  /\ pendingUpload > 0
  /\ pendingUpload' = pendingUpload - 1
  /\ isStreaming' = IF startDataStream(res) /\ mounted THEN TRUE ELSE isStreaming
  /\ errorMessage' = IF ~startDataStream(res) /\ mounted THEN "stream" ELSE errorMessage
  /\ Dispatched("uploadStartResolved")
  /\ UNCHANGED <<videoId, player, isCalibrated, calibrationPercent, attentionData,
                 showGraph, currentAttention, videoMode, uploadedVideoUrl,
                 refVars, capVars, mounted, ytApiLoaded, timers, yt, video,
                 pendingReady, lastStreamReq>>
  /\ UNCHANGED <<wsVars, signalVars>>

\* onClick of the "YouTube" mode button
ClickYouTubeMode ==
  /\ mounted
  /\ videoMode' = "youtube"
  /\ uploadedVideoUrl' = NoUrl
  /\ showGraph' = FALSE
  /\ attentionData' = <<>>
  /\ FileEffect(NoUrl, "youtube")
  /\ UnmountEffect(NoUrl, lastStreamReq)
  /\ Dispatched("clickYouTube")
  /\ UNCHANGED <<videoId, player, isStreaming, isCalibrated, calibrationPercent,
                 currentAttention, errorMessage, playerRef, currentAttentionRef,
                 lastYouTubeTimeRef, youtubeSeekCheckIntervalRef, ytCap, mounted,
                 ytApiLoaded, yt, pendingReady, pendingUpload>>
  /\ UNCHANGED <<wsVars, signalVars>>

\* onClick of the "File" mode button
ClickFileMode ==
  /\ mounted
  /\ videoMode' = "file"
  /\ videoId' = NoVideo
  /\ showGraph' = FALSE
  /\ attentionData' = <<>>
  /\ PlayerEffect(NoVideo, "file")
  /\ FileEffect(uploadedVideoUrl, "file")
  /\ Dispatched("clickFile")
  /\ UNCHANGED <<isStreaming, isCalibrated, calibrationPercent, currentAttention,
                 errorMessage, uploadedVideoUrl, trackingIntervalRef,
                 currentAttentionRef, youtubeSeekCheckIntervalRef, unmountCap,
                 mounted, ytApiLoaded, timers, pendingReady, pendingUpload,
                 lastStreamReq>>
  /\ UNCHANGED <<wsVars, signalVars>>

\* ---- the YouTube player ----------------------------------------------------
\* the second half of onPlayerReady: (re)start the 500 ms seek-check poller
ArmSeekCheck(ts, mode) ==
  LET cleared == ClearSeekCheck(ts)
      id == FreshId(cleared, "seek")
  IN [timers |-> cleared \cup {[id |-> id, kind |-> "seek",
                                videoMode |-> mode, player |-> "null"]},
      ref |-> id]

\* events.onReady, up to the await (or to the end when no request is sent)
onPlayerReady ==
  /\ YTLive /\ ~yt.ready
  /\ yt' = [yt EXCEPT !.ready = TRUE]
  /\ IF ~ytCap.isStreaming
     THEN /\ Len(pendingReady) + pendingUpload < MaxInFlight
          /\ pendingReady' = Append(pendingReady, [videoMode |-> ytCap.videoMode])
          /\ lastStreamReq' = "start"
          /\ UNCHANGED <<timers, youtubeSeekCheckIntervalRef>>
     ELSE /\ timers' = ArmSeekCheck(timers, ytCap.videoMode).timers
          /\ youtubeSeekCheckIntervalRef' = ArmSeekCheck(timers, ytCap.videoMode).ref
          /\ UNCHANGED <<pendingReady, lastStreamReq>>
  /\ Dispatched("playerReady")
  /\ UNCHANGED <<reactVars, playerRef, trackingIntervalRef, currentAttentionRef,
                 lastYouTubeTimeRef, capVars, mounted, ytApiLoaded, video,
                 pendingUpload>>
  /\ UNCHANGED <<wsVars, signalVars>>

\* the continuation of onPlayerReady after `await startDataStream`
ReadyStartResolved(i, res) ==
  /\ i \in 1..Len(pendingReady)
  /\ pendingReady' = SubSeq(pendingReady, 1, i - 1) \o
                     SubSeq(pendingReady, i + 1, Len(pendingReady))
  /\ isStreaming' = IF startDataStream(res) /\ mounted THEN TRUE ELSE isStreaming
  /\ errorMessage' = IF ~startDataStream(res) /\ mounted THEN "stream" ELSE errorMessage
  /\ timers' = ArmSeekCheck(timers, pendingReady[i].videoMode).timers
  /\ youtubeSeekCheckIntervalRef' = ArmSeekCheck(timers, pendingReady[i].videoMode).ref
  /\ Dispatched("readyStartResolved")
  /\ UNCHANGED <<videoId, player, isCalibrated, calibrationPercent, attentionData,
                 showGraph, currentAttention, videoMode, uploadedVideoUrl,
                 playerRef, trackingIntervalRef, currentAttentionRef,
                 lastYouTubeTimeRef, capVars, mounted, ytApiLoaded, yt, video,
                 pendingUpload, lastStreamReq>>
  /\ UNCHANGED <<wsVars, signalVars>>

\* the notifications an embedded player sends from each playback state: it
\* reports unstarted only before its first playback, and can repeat playing
YTNotifications(state) ==
  CASE state = "unstarted" -> {"unstarted", "buffering", "playing"}
    [] state = "buffering" -> {"playing", "paused", "ended"}
    [] state = "playing" -> {"playing", "paused", "buffering", "ended"}
    [] state = "paused" -> {"playing", "buffering", "ended"}
    [] state = "ended" -> {"playing", "buffering"}

\* events.onStateChange with event.data = s
onPlayerStateChange(s) ==
  /\ YTLive /\ yt.ready /\ s \in YTNotifications(yt.state)
  /\ yt' = [yt EXCEPT !.state = s]
  /\ ev' = Ev("stateChange")
  /\ roundTrip' = IF s = "playing" THEN FALSE ELSE roundTrip
  /\ seen' = seen
  /\ IF s = "playing"
     THEN LET r == startAttentionTracking(TrackState, ytCap) IN
          /\ timers' = r.timers
          /\ trackingIntervalRef' = r.ref
          /\ UNCHANGED <<showGraph, youtubeSeekCheckIntervalRef>>
     ELSE IF s \in {"paused", "buffering"}
     THEN LET r == stopAttentionTracking(TrackState) IN
          /\ timers' = r.timers
          /\ trackingIntervalRef' = r.ref
          /\ UNCHANGED <<showGraph, youtubeSeekCheckIntervalRef>>
     ELSE IF s = "ended"
     THEN LET r == stopAttentionTracking(TrackState) IN
          /\ timers' = ClearSeekCheck(r.timers)
          /\ trackingIntervalRef' = r.ref
          /\ showGraph' = TRUE
          /\ youtubeSeekCheckIntervalRef' = NoTimer
     ELSE UNCHANGED <<timers, trackingIntervalRef, showGraph,
                      youtubeSeekCheckIntervalRef>>
  /\ UNCHANGED <<videoId, player, isStreaming, isCalibrated, calibrationPercent,
                 attentionData, currentAttention, errorMessage, videoMode,
                 uploadedVideoUrl, playerRef, currentAttentionRef,
                 lastYouTubeTimeRef, capVars, mounted, ytApiLoaded, video,
                 pendingReady, pendingUpload, lastStreamReq>>
  /\ UNCHANGED <<wsVars, signalVars>>

\* the player's clock advances while it plays
YTProgress(t) ==
  /\ YTLive /\ yt.ready /\ yt.state = "playing" /\ t > yt.time
  /\ yt' = [yt EXCEPT !.time = t]
  /\ Dispatched("ytProgress")
  /\ UNCHANGED <<reactVars, refVars, capVars, mounted, ytApiLoaded, timers,
                 video, pendingReady, pendingUpload, lastStreamReq>>
  /\ UNCHANGED <<wsVars, signalVars>>

\* the user drags the YouTube progress bar to t
YTSeek(t) ==
  /\ YTLive /\ yt.ready /\ t # yt.time
  /\ yt' = [yt EXCEPT !.time = t]
  /\ Dispatched("ytSeek")
  /\ UNCHANGED <<reactVars, refVars, capVars, mounted, ytApiLoaded, timers,
                 video, pendingReady, pendingUpload, lastStreamReq>>
  /\ UNCHANGED <<wsVars, signalVars>>

\* the callback of the seek-check interval: (lastYouTubeTime, seekTo target)
\* for a reading ct of the player clock; seekTo = Throws means no seek
\* the callback with lastYouTubeTime assigned from the clock
SeekCheck_assigns(ct, last) ==
  IF ct < last - YOUTUBE_SEEK_THRESHOLD
  THEN [last |-> last, seekTo |-> last]
  ELSE [last |-> ct, seekTo |-> Throws]

SeekCheck(ct, last) ==
  IF ct < last - YOUTUBE_SEEK_THRESHOLD
  THEN [last |-> last, seekTo |-> last]
  ELSE [last |-> Max(last, ct), seekTo |-> Throws]

SeekCheckTick(t) ==
  /\ t \in timers /\ t.kind = "seek"
  /\ Dispatched("seekCheck")
  /\ IF playerRef # "null" /\ t.videoMode = "youtube"
     THEN \E ct \in GetCurrentTime(playerRef) :
            IF ct = Throws
            THEN UNCHANGED <<lastYouTubeTimeRef, yt>>
            ELSE LET r == SeekCheck(ct, lastYouTubeTimeRef) IN
                 /\ lastYouTubeTimeRef' = r.last
                 /\ yt' = IF r.seekTo # Throws /\ YTLive /\ yt.ready
                          THEN [yt EXCEPT !.time = r.seekTo]
                          ELSE yt
     ELSE UNCHANGED <<lastYouTubeTimeRef, yt>>
  /\ UNCHANGED <<reactVars, playerRef, trackingIntervalRef, currentAttentionRef,
                 youtubeSeekCheckIntervalRef, capVars, mounted, ytApiLoaded,
                 timers, video, pendingReady, pendingUpload, lastStreamReq>>
  /\ UNCHANGED <<wsVars, signalVars>>

\* the iframe_api script finishes loading
YouTubeApiLoaded ==
  /\ ~ytApiLoaded
  /\ ytApiLoaded' = TRUE
  /\ Dispatched("apiLoaded")
  /\ UNCHANGED <<reactVars, refVars, capVars, mounted, timers, yt, video,
                 pendingReady, pendingUpload, lastStreamReq>>
  /\ UNCHANGED <<wsVars, signalVars>>

\* ---- the metrics feed ------------------------------------------------------
\* the 'emotions' message handler on (isCalibrated, calibrationPercent,
\* currentAttention / currentAttentionRef)
\* the handler with calibration complete only above 100 percent
EmotionsHandler_above100(st, msg) ==
  IF msg.type # "emotions" THEN st
  ELSE IF msg.calibration_percent # Undefined
  THEN [st EXCEPT !.calibrationPercent = msg.calibration_percent,
                  !.isCalibrated = IF msg.calibration_percent > 100 THEN TRUE ELSE @]
  ELSE IF msg.rel_attention # Undefined
  THEN [st EXCEPT !.isCalibrated = TRUE, !.currentAttention = msg.rel_attention]
  ELSE st

\* the handler with isCalibrated assigned from every calibration event
EmotionsHandler_reassigns(st, msg) ==
  IF msg.type # "emotions" THEN st
  ELSE IF msg.calibration_percent # Undefined
  THEN [st EXCEPT !.calibrationPercent = msg.calibration_percent,
                  !.isCalibrated = msg.calibration_percent >= 100]
  ELSE IF msg.rel_attention # Undefined
  THEN [st EXCEPT !.isCalibrated = TRUE, !.currentAttention = msg.rel_attention]
  ELSE st

\* the handler adding each progress report to the percentage it holds
EmotionsHandler_accumulates(st, msg) ==
  IF msg.type # "emotions" THEN st
  ELSE IF msg.calibration_percent # Undefined
  THEN LET sum == IF st.calibrationPercent + msg.calibration_percent >= 100
                  THEN 100 ELSE st.calibrationPercent + msg.calibration_percent
       IN [st EXCEPT !.calibrationPercent = sum,
                     !.isCalibrated = IF sum >= 100 THEN TRUE ELSE @]
  ELSE IF msg.rel_attention # Undefined
  THEN [st EXCEPT !.isCalibrated = TRUE, !.currentAttention = msg.rel_attention]
  ELSE st

\* the handler with an event carrying neither field counted as a reading
EmotionsHandler_bareCompletes(st, msg) ==
  IF msg.type # "emotions" THEN st
  ELSE IF msg.calibration_percent # Undefined
  THEN [st EXCEPT !.calibrationPercent = msg.calibration_percent,
                  !.isCalibrated = IF msg.calibration_percent >= 100 THEN TRUE ELSE @]
  ELSE [st EXCEPT !.isCalibrated = TRUE,
                  !.currentAttention = IF msg.rel_attention # Undefined
                                       THEN msg.rel_attention ELSE @]

EmotionsHandler(st, msg) ==
  IF msg.type # "emotions" THEN st
  ELSE IF msg.calibration_percent # Undefined
  THEN [st EXCEPT !.calibrationPercent = msg.calibration_percent,
                  !.isCalibrated = IF msg.calibration_percent >= 100 THEN TRUE ELSE @]
  ELSE IF msg.rel_attention # Undefined
  THEN [st EXCEPT !.isCalibrated = TRUE, !.currentAttention = msg.rel_attention]
  ELSE st

FeedState == [isCalibrated |-> isCalibrated,
              calibrationPercent |-> calibrationPercent,
              currentAttention |-> currentAttention]

\* the handler keeping the first reading in currentAttentionRef
EmotionsMessage_firstWriteWins(msg) ==
  /\ mounted
  /\ LET st == EmotionsHandler(FeedState, msg) IN
     /\ isCalibrated' = st.isCalibrated
     /\ calibrationPercent' = st.calibrationPercent
     /\ currentAttention' = st.currentAttention
     /\ currentAttentionRef' = IF currentAttentionRef = NoAttention
                              THEN st.currentAttention
                              ELSE currentAttentionRef
  /\ ev' = Ev("emotions")
  /\ roundTrip' = roundTrip
  /\ seen' = IF msg.type # "emotions" THEN seen
             ELSE [completion |-> \/ seen.completion
                                  \/ msg.calibration_percent >= 100
                                  \/ msg.calibration_percent = Undefined,
                   attention |-> \/ seen.attention
                                 \/ msg.calibration_percent >= 100
                                 \/ /\ msg.calibration_percent = Undefined
                                    /\ msg.rel_attention # Undefined]
  /\ UNCHANGED <<videoId, player, isStreaming, attentionData, showGraph,
                 errorMessage, videoMode, uploadedVideoUrl, playerRef,
                 trackingIntervalRef, lastYouTubeTimeRef,
                 youtubeSeekCheckIntervalRef, capVars, envVars>>
  /\ UNCHANGED <<wsVars, signalVars>>

EmotionsMessage(msg) ==
  /\ mounted
  /\ LET st == EmotionsHandler(FeedState, msg) IN
     /\ isCalibrated' = st.isCalibrated
     /\ calibrationPercent' = st.calibrationPercent
     /\ currentAttention' = st.currentAttention
     /\ currentAttentionRef' = st.currentAttention
  /\ ev' = Ev("emotions")
  /\ roundTrip' = roundTrip
  /\ seen' = IF msg.type # "emotions" THEN seen
             ELSE [completion |-> \/ seen.completion
                                  \/ msg.calibration_percent >= 100
                                  \/ msg.calibration_percent = Undefined,
                   attention |-> \/ seen.attention
                                 \/ msg.calibration_percent >= 100
                                 \/ /\ msg.calibration_percent = Undefined
                                    /\ msg.rel_attention # Undefined]
  /\ UNCHANGED <<videoId, player, isStreaming, attentionData, showGraph,
                 errorMessage, videoMode, uploadedVideoUrl, playerRef,
                 trackingIntervalRef, lastYouTubeTimeRef,
                 youtubeSeekCheckIntervalRef, capVars, envVars>>
  /\ UNCHANGED <<wsVars, signalVars>>

\* ---- the sampling tick -----------------------------------------------------
\* the callback without its return on a null currentAttentionRef
TickTimes_noNullCheck(t) ==
  IF t.videoMode = "youtube" /\ t.player # "null" THEN GetCurrentTime(t.player)
  ELSE IF t.videoMode = "file" /\ htmlVideoRef THEN {video.time}
  ELSE {Throws}

\* the playback times the interval callback of timer t can read; Throws when
\* it returns (or raises) before building a data point
TickTimes(t) ==
  IF currentAttentionRef = NoAttention THEN {Throws}
  ELSE IF t.videoMode = "youtube" /\ t.player # "null" THEN GetCurrentTime(t.player)
  ELSE IF t.videoMode = "file" /\ htmlVideoRef THEN {video.time}
  ELSE {Throws}

TrackTick(t) ==
  /\ t \in timers /\ t.kind = "track"
  /\ Len(attentionData) < MaxSamples
  /\ Dispatched("tick")
  /\ \E ct \in TickTimes(t) :
       attentionData' =
         IF ct # Throws /\ mounted
         THEN Append(attentionData, [time |-> MathRound(ct),
                                     attention |-> currentAttentionRef])
         ELSE attentionData
  /\ UNCHANGED <<videoId, player, isStreaming, isCalibrated, calibrationPercent,
                 showGraph, currentAttention, errorMessage, videoMode,
                 uploadedVideoUrl, refVars, capVars, envVars>>
  /\ UNCHANGED <<wsVars, signalVars>>

\* ---- the HTML5 video element -----------------------------------------------
\* 'play' event -> handlePlay
FilePlay ==
  /\ htmlVideoRef /\ listeners /\ video.state # "playing"
  /\ video' = [video EXCEPT !.state = "playing",
                            !.time = IF video.state = "ended" THEN 0 ELSE @]
  /\ LET r == startAttentionTracking(TrackState, fileCap) IN
     /\ timers' = r.timers
     /\ trackingIntervalRef' = r.ref
  /\ ev' = Ev("play")
  /\ roundTrip' = FALSE
  /\ seen' = seen
  /\ UNCHANGED <<reactVars, playerRef, currentAttentionRef, lastYouTubeTimeRef,
                 youtubeSeekCheckIntervalRef, capVars, mounted, ytApiLoaded, yt,
                 pendingReady, pendingUpload, lastStreamReq>>
  /\ UNCHANGED <<wsVars, signalVars>>

\* 'pause' event -> handlePause
FilePause ==
  /\ htmlVideoRef /\ listeners /\ video.state = "playing"
  /\ video' = [video EXCEPT !.state = "paused"]
  /\ LET r == stopAttentionTracking(TrackState) IN
     /\ timers' = r.timers
     /\ trackingIntervalRef' = r.ref
  /\ Dispatched("pause")
  /\ UNCHANGED <<reactVars, playerRef, currentAttentionRef, lastYouTubeTimeRef,
                 youtubeSeekCheckIntervalRef, capVars, mounted, ytApiLoaded, yt,
                 pendingReady, pendingUpload, lastStreamReq>>
  /\ UNCHANGED <<wsVars, signalVars>>

\* playback reaches the end: 'pause' then 'ended' -> handlePause, handleEnded
FileEnded ==
  /\ htmlVideoRef /\ listeners /\ video.state = "playing"
  /\ video' = [video EXCEPT !.state = "ended"]
  /\ LET r == stopAttentionTracking(stopAttentionTracking(TrackState)) IN
     /\ timers' = r.timers
     /\ trackingIntervalRef' = r.ref
  /\ showGraph' = TRUE
  /\ Dispatched("ended")
  /\ UNCHANGED <<videoId, player, isStreaming, isCalibrated, calibrationPercent,
                 attentionData, currentAttention, errorMessage, videoMode,
                 uploadedVideoUrl, playerRef, currentAttentionRef,
                 lastYouTubeTimeRef, youtubeSeekCheckIntervalRef, capVars,
                 mounted, ytApiLoaded, yt, pendingReady, pendingUpload,
                 lastStreamReq>>
  /\ UNCHANGED <<wsVars, signalVars>>

\* the element's clock advances while it plays
FileProgress(t) ==
  /\ htmlVideoRef /\ video.state = "playing" /\ ~video.seeking /\ t > video.time
  /\ video' = [video EXCEPT !.time = t]
  /\ Dispatched("progress")
  /\ UNCHANGED <<reactVars, refVars, capVars, mounted, ytApiLoaded, timers, yt,
                 pendingReady, pendingUpload, lastStreamReq>>
  /\ UNCHANGED <<wsVars, signalVars>>

\* handleSeeking: the position the element has after the 'seeking' listener
\* handleSeeking with the tolerance boundary included
handleSeeking_inclusive(currentTime, lastValid) ==
  IF currentTime <= lastValid - SEEK_TOLERANCE THEN lastValid ELSE currentTime

handleSeeking(currentTime, lastValid) ==
  IF currentTime < lastValid - SEEK_TOLERANCE THEN lastValid ELSE currentTime

\* handleTimeUpdate: the new lastValidTime
handleTimeUpdate(currentTime, seeking, lastValid) ==
  IF ~seeking THEN currentTime ELSE lastValid

\* the user seeks to t: 'seeking' event -> handleSeeking
FileSeek(t) ==
  /\ htmlVideoRef /\ listeners /\ t # video.time
  /\ video' = [video EXCEPT !.time = handleSeeking(t, lastValidTime),
                            !.seeking = TRUE]
  /\ ev' = [name |-> "seeking", arg |-> t]
  /\ UNCHANGED <<roundTrip, seen>>
  /\ UNCHANGED <<reactVars, refVars, capVars, mounted, ytApiLoaded, timers, yt,
                 pendingReady, pendingUpload, lastStreamReq>>
  /\ UNCHANGED <<wsVars, signalVars>>

\* the seek completes ('seeked'): video.seeking becomes false
FileSeeked ==
  /\ htmlVideoRef /\ video.seeking
  /\ video' = [video EXCEPT !.seeking = FALSE]
  /\ Dispatched("seeked")
  /\ UNCHANGED <<reactVars, refVars, capVars, mounted, ytApiLoaded, timers, yt,
                 pendingReady, pendingUpload, lastStreamReq>>
  /\ UNCHANGED <<wsVars, signalVars>>

\* 'timeupdate' event -> handleTimeUpdate
FileTimeUpdate ==
  /\ htmlVideoRef /\ listeners
  /\ lastValidTime' = handleTimeUpdate(video.time, video.seeking, lastValidTime)
  /\ Dispatched("timeupdate")
  /\ UNCHANGED <<reactVars, refVars, ytCap, fileCap, unmountCap, listeners,
                 envVars>>
  /\ UNCHANGED <<wsVars, signalVars>>

\* ---- unmount ---------------------------------------------------------------
\* the tab is left: every effect cleanup runs with the closure it captured
Unmount ==
  /\ mounted
  /\ mounted' = FALSE
  /\ yt' = IF playerRef # "null"
           THEN DestroyedPlayer
           ELSE yt
  /\ listeners' = FALSE
  /\ video' = NewVideo
  /\ UnmountCleanup(lastStreamReq)
  /\ Dispatched("unmount")
  /\ UNCHANGED <<reactVars, playerRef, currentAttentionRef, lastYouTubeTimeRef,
                 youtubeSeekCheckIntervalRef, ytCap, fileCap, unmountCap,
                 lastValidTime, ytApiLoaded, pendingReady, pendingUpload>>
  /\ UNCHANGED <<wsVars, signalVars>>

\* ---- WebSocketService -------------------------------------------------------
\* the WebSocket objects that still deliver events, and a slot for a new one
Live == {i \in SocketIds : sockets[i] # "none"}
FreshSocket ==
  CHOOSE i \in SocketIds \ Live : \A j \in SocketIds \ Live : i <= j
\* the id setTimeout returns
FreshTimeout ==
  CHOOSE k \in TimeoutIds :
    /\ \A t \in wsTimers : t.id # k
    /\ \A j \in TimeoutIds : (\A t \in wsTimers : t.id # j) => k <= j

\* clearTimeout(id)
clearTimeout(ts, id) == {t \in ts : t.id # id}

\* the body of connect(): this.ws = new WebSocket(WS_URL) with its handlers
connectBody ==
  /\ sockets' = [sockets EXCEPT ![FreshSocket] = "connecting"]
  /\ ws' = FreshSocket

\* connect() called by a client of the service
connect ==
  /\ Cardinality(Live) + Cardinality(wsTimers) < MaxSockets
  /\ connectBody
  /\ UNCHANGED <<reconnectTimer, shouldReconnect, wsTimers>>
  /\ UNCHANGED <<trackerVars, signalVars>>
  /\ UNCHANGED <<messageHandlers, invoked>>

\* ws.onopen of socket i
onopen(i) ==
  /\ sockets[i] = "connecting"
  /\ sockets' = [sockets EXCEPT ![i] = "open"]
  /\ wsTimers' = IF reconnectTimer # NoTimer
                 THEN clearTimeout(wsTimers, reconnectTimer)
                 ELSE wsTimers
  /\ reconnectTimer' = NoTimer
  /\ UNCHANGED <<ws, shouldReconnect>>
  /\ UNCHANGED <<trackerVars, signalVars>>
  /\ UNCHANGED <<messageHandlers, invoked>>

\* ws.onerror of socket i: the connection failed, its close event follows
onerror(i) ==
  /\ sockets[i] \in {"connecting", "open"}
  /\ sockets' = [sockets EXCEPT ![i] = "closing"]
  /\ UNCHANGED <<ws, reconnectTimer, shouldReconnect, wsTimers>>
  /\ UNCHANGED <<trackerVars, signalVars>>
  /\ UNCHANGED <<messageHandlers, invoked>>

\* ws.onclose of socket i
onclose(i) ==
  /\ sockets[i] # "none"
  /\ sockets' = [sockets EXCEPT ![i] = "none"]
  /\ ws' = NoSocket
  /\ IF shouldReconnect
     THEN /\ wsTimers' = wsTimers \cup {[id |-> FreshTimeout,
                                         delay |-> reconnectInterval]}
          /\ reconnectTimer' = FreshTimeout
     ELSE UNCHANGED <<wsTimers, reconnectTimer>>
  /\ UNCHANGED shouldReconnect
  /\ UNCHANGED <<trackerVars, signalVars>>
  /\ UNCHANGED <<messageHandlers, invoked>>

\* the setTimeout callback of onclose runs: this.connect()
ReconnectTimerFires(t) ==
  /\ t \in wsTimers
  /\ wsTimers' = wsTimers \ {t}
  /\ connectBody
  /\ UNCHANGED <<reconnectTimer, shouldReconnect>>
  /\ UNCHANGED <<trackerVars, signalVars>>
  /\ UNCHANGED <<messageHandlers, invoked>>

disconnect ==
  /\ shouldReconnect' = FALSE
  /\ wsTimers' = IF reconnectTimer # NoTimer
                 THEN clearTimeout(wsTimers, reconnectTimer)
                 ELSE wsTimers
  /\ reconnectTimer' = NoTimer
  /\ IF ws # NoSocket
     THEN /\ sockets' = [sockets EXCEPT ![ws] = "closing"]
          /\ ws' = NoSocket
     ELSE UNCHANGED <<sockets, ws>>
  /\ UNCHANGED <<trackerVars, signalVars>>
  /\ UNCHANGED <<messageHandlers, invoked>>

\* JSON.parse(event.data) returns
Parses(frame) == frame # "garbage"

\* handler h raises on the parsed message: every handler reads message.type,
\* and the tracker's handler reads data.calibration_percent of an 'emotions'
\* message
HandlerThrows(h, frame) ==
  \/ frame = "null"
  \/ frame = "emotionsNoData" /\ h = "VideoAttentionTracker"

\* this.messageHandlers.forEach(handler => handler(message)): the handlers
\* called, in order; an exception leaves forEach
forEach(hs, frame) ==
  LET thrown == {k \in 1..Len(hs) : HandlerThrows(hs[k], frame)}
  IN IF thrown = {} THEN hs
     ELSE SubSeq(hs, 1, CHOOSE k \in thrown : \A j \in thrown : k <= j)

\* ws.onmessage of socket i
onmessage(i, frame) ==
  /\ sockets[i] = "open"
  /\ invoked' = IF Parses(frame) THEN forEach(messageHandlers, frame) ELSE <<>>
  /\ UNCHANGED <<connVars, messageHandlers>>
  /\ UNCHANGED <<trackerVars, signalVars>>

\* Set.add keeps one entry per handler
addMessageHandler(h) ==
  /\ messageHandlers' = IF \E k \in 1..Len(messageHandlers) : messageHandlers[k] = h
                        THEN messageHandlers
                        ELSE Append(messageHandlers, h)
  /\ UNCHANGED <<connVars, invoked>>
  /\ UNCHANGED <<trackerVars, signalVars>>

removeMessageHandler(h) ==
  /\ messageHandlers' = SelectSeq(messageHandlers, LAMBDA x : x # h)
  /\ UNCHANGED <<connVars, invoked>>
  /\ UNCHANGED <<trackerVars, signalVars>>

\* isConnected(): this.ws !== null && this.ws.readyState === WebSocket.OPEN
isConnected == ws # NoSocket /\ sockets[ws] = "open"

\* send(message): what happens to the message
send == IF ws # NoSocket /\ sockets[ws] = "open" THEN "sent" ELSE "dropped"

\* ---- SignalViewer -----------------------------------------------------------
\* Array.prototype.slice(-n): the last n elements
sliceLast(q, n) ==
  IF Len(q) <= n THEN q ELSE SubSeq(q, Len(q) - n + 1, Len(q))

\* message.data.map(...): the points of a message whose first sample is the
\* (first)th to arrive
newData(first, count) == [k \in 1..count |-> first + k - 1]

\* the updater keeping the oldest maxDataPoints points
SignalHandler_keepsOldest(prev, msg, first) ==
  IF msg.type = "signal" /\ msg.isArray
  THEN LET combined == prev \o newData(first, msg.count)
       IN IF Len(combined) <= maxDataPoints THEN combined
          ELSE SubSeq(combined, 1, maxDataPoints)
  ELSE prev

\* the message handler: the new value of signalData
SignalHandler(prev, msg, first) ==
  IF msg.type = "signal" /\ msg.isArray
  THEN LET combined == prev \o newData(first, msg.count)
       IN sliceLast(combined, maxDataPoints)
  ELSE prev

\* a message reaches the SignalViewer handler
SignalMessage(msg) ==
  /\ LET arrives == IF msg.type = "signal" /\ msg.isArray THEN msg.count ELSE 0
     IN /\ received + arrives <= MaxReceived
        /\ received' = received + arrives
  /\ signalData' = SignalHandler(signalData, msg, received + 1)
  /\ UNCHANGED <<trackerVars, wsVars>>

\* ---- specification ---------------------------------------------------------
Next ==
  \/ \E url \in Urls : handleUrlSubmit(url)
  \/ \E file \in FileInputs : handleFileUpload(file)
  \/ \E res \in StartResponses : UploadStartResolved(res)
  \/ ClickYouTubeMode
  \/ ClickFileMode
  \/ onPlayerReady
  \/ \E i \in 1..MaxInFlight, res \in StartResponses : ReadyStartResolved(i, res)
  \/ \E s \in YTStates : onPlayerStateChange(s)
  \/ \E t \in Times : YTProgress(t)
  \/ \E t \in timers : SeekCheckTick(t)
  \/ YouTubeApiLoaded
  \/ \E msg \in SessionEvents : EmotionsMessage(msg)
  \/ \E t \in timers : TrackTick(t)
  \/ FilePlay
  \/ FilePause
  \/ FileEnded
  \/ \E t \in Times : FileProgress(t)
  \/ Unmount

Spec == Init /\ [][Next]_vars

\* ---- the playback guards in isolation ---------------------------------------
NextFileGuard ==
  \/ \E file \in FileInputs : handleFileUpload(file)
  \/ \E res \in StartResponses : UploadStartResolved(res)
  \/ ClickFileMode
  \/ FilePlay
  \/ FilePause
  \/ \E t \in GuardTimes : FileProgress(t)
  \/ \E t \in GuardTimes : FileSeek(t)
  \/ FileSeeked
  \/ FileTimeUpdate

SpecFileGuard == Init /\ [][NextFileGuard]_vars

\* the YouTube player with its seek-check poller and a user who seeks
NextYouTubeGuard ==
  \/ \E url \in Urls : handleUrlSubmit(url)
  \/ onPlayerReady
  \/ \E i \in 1..MaxInFlight, res \in StartResponses : ReadyStartResolved(i, res)
  \/ \E s \in YTStates : onPlayerStateChange(s)
  \/ \E t \in YTGuardTimes : YTProgress(t)
  \/ \E t \in YTGuardTimes : YTSeek(t)
  \/ \E t \in timers : SeekCheckTick(t)
  \/ YouTubeApiLoaded

SpecYouTubeGuard == Init /\ [][NextYouTubeGuard]_vars

\* ---- the metrics feed against a playing video file --------------------------
\* every 'emotions' payload the feed can carry, with two attention values
NextFeed ==
  \/ \E file \in FileInputs : handleFileUpload(file)
  \/ \E res \in StartResponses : UploadStartResolved(res)
  \/ ClickFileMode
  \/ FilePlay
  \/ FilePause
  \/ FileEnded
  \/ \E t \in Times : FileProgress(t)
  \/ \E msg \in EmotionsEvents : EmotionsMessage(msg)
  \/ \E t \in timers : TrackTick(t)

SpecFeed == Init /\ [][NextFeed]_vars

\* ---- both video sources without seeking and without leaving the tab ---------
NextSession ==
  \/ \E url \in Urls : handleUrlSubmit(url)
  \/ \E file \in FileInputs : handleFileUpload(file)
  \/ \E res \in StartResponses : UploadStartResolved(res)
  \/ ClickYouTubeMode
  \/ ClickFileMode
  \/ onPlayerReady
  \/ \E i \in 1..MaxInFlight, res \in StartResponses : ReadyStartResolved(i, res)
  \/ \E s \in YTStates : onPlayerStateChange(s)
  \/ YouTubeApiLoaded
  \/ \E msg \in SessionEvents : EmotionsMessage(msg)
  \/ \E t \in timers : TrackTick(t)
  \/ FilePlay
  \/ FilePause
  \/ FileEnded

SpecSession == Init /\ [][NextSession]_vars

\* ---- the WebSocket service and its clients -----------------------------------
NextWebSocket ==
  \/ connect
  \/ disconnect
  \/ \E i \in SocketIds : onopen(i)
  \/ \E i \in SocketIds : onerror(i)
  \/ \E i \in SocketIds : onclose(i)
  \/ \E t \in wsTimers : ReconnectTimerFires(t)
  \/ \E i \in SocketIds, frame \in Frames : onmessage(i, frame)
  \/ \E h \in Handlers : addMessageHandler(h)
  \/ \E h \in Handlers : removeMessageHandler(h)

SpecWebSocket == Init /\ [][NextWebSocket]_vars

\* the event loop runs every pending setTimeout callback once its delay has
\* passed
TimeoutsFire ==
  \A k \in TimeoutIds :
    WF_vars(\E t \in wsTimers : t.id = k /\ ReconnectTimerFires(t))

SpecWebSocketFair == SpecWebSocket /\ TimeoutsFire

\* ---- the signal chart's buffer -------------------------------------------------
NextSignal == \E msg \in SignalMessages : SignalMessage(msg)

SpecSignal == Init /\ [][NextSignal]_vars

\* ---- session states of the specification -----------------------------------
SamplingActive == \E t \in timers : t.kind = "track"
SeekCheckActive == \E t \in timers : t.kind = "seek"
Tracking == isCalibrated /\ Playing
Finished == showGraph

\* a step that assigns a video source: a URL with a video id, or a video file
SourceAssigned ==
  \/ videoId' # videoId /\ videoId' # NoVideo
  \/ uploadedVideoUrl' # uploadedVideoUrl /\ uploadedVideoUrl' # NoUrl

\* the source on screen and its clock
SourceLoaded ==
  \/ videoMode = "youtube" /\ YTLive /\ yt.ready
  \/ htmlVideoRef
ActiveTime == IF videoMode = "youtube" THEN yt.time ELSE video.time

\* ---- claims ------------------------------------------------------------------
\* C1: a sample is appended to attentionData only in a step taken while the
\* session is Tracking (calibrated and playing, not Finished).
C1_AppendOnlyWhileTracking ==
  [][Len(attentionData') > Len(attentionData) => Tracking /\ ~Finished]_vars

\* C2: the sampling interval is active if and only if calibration is complete
\* and the playback state is playing.
C2_TimerIffTracking == mounted => (SamplingActive <=> Tracking)

\* C3: a step that assigns a new video source leaves no interval of the
\* previous source alive.
C3_SwitchCancelsCallbacks == [][SourceAssigned => timers' = {}]_vars

\* C4: once the component has unmounted, no interval it created is live.
C4_NoTimerAfterUnmount == ~mounted => timers = {}

\* C5: after a session that recorded samples has ended and a new source was
\* assigned, the Series Buffer is empty until the new source starts playing.
C5_RoundTripEmpty == roundTrip => attentionData = <<>>
C5_Witness == roundTrip /\ mounted /\ ~Playing /\ attentionData = <<>>

\* C6: when playback ended the sampling timer is stopped and showGraph is
\* true, and while showGraph stays true the Series Buffer does not change.
C6_FrozenAfterEnded == [][showGraph /\ showGraph' => attentionData' = attentionData]_vars

\* C7: while the sampling timer runs for a loaded video, a tick with
\* latestAttention non-null appends exactly the sample (rounded playback time
\* of the source on screen, latestAttention), and a tick with null appends nothing.
C7_TickAppendsSample ==
  [][(ev'.name = "tick" /\ mounted /\ SamplingActive /\ SourceLoaded) =>
       attentionData' =
         IF currentAttentionRef = NoAttention THEN attentionData
         ELSE Append(attentionData, [time |-> MathRound(ActiveTime),
                                     attention |-> currentAttentionRef])]_vars

\* C8 (as stated): isCalibrated is true exactly from the first event that is a
\* calibration event with percent >= 100 or an event without calibration_percent.
C8_CalibratedAtFirstCompletion == isCalibrated <=> seen.completion

\* C8 (amended): isCalibrated is true exactly from the first event that is a
\* calibration event with percent >= 100 or an event without
\* calibration_percent that carries rel_attention.
C8_CalibratedAtFirstAttention == isCalibrated <=> seen.attention
C8_Witness == isCalibrated /\ seen.attention /\ calibrationPercent < 100

\* C9: once isCalibrated is true no later step sets it back to false.
C9_CalibratedNeverReverts == [][isCalibrated => isCalibrated']_vars
C9_Witness == isCalibrated /\ calibrationPercent = 50 /\ showGraph

\* C10: a seek of the local file to t is forced back to lastValidTime if and
\* only if t < lastValidTime - 0.5 s: from 10.0 s a seek to 9.0 s ends at
\* 10.0 s, a seek to 9.6 s stays at 9.6 s, and a forward seek is never corrected.
C10_SeekGuard ==
  ev.name = "seeking" =>
    /\ video.time = (IF ev.arg < lastValidTime - 5 THEN lastValidTime ELSE ev.arg)
    /\ (lastValidTime = 100 /\ ev.arg = 90 => video.time = 100)
    /\ (lastValidTime = 100 /\ ev.arg = 96 => video.time = 96)
    /\ (ev.arg >= lastValidTime => video.time = ev.arg)
C10_Witness == ev.name = "seeking" /\ ev.arg = 90 /\ lastValidTime = 100 /\ video.time = 100

\* C11: within one session (no new source assigned) no step lowers the
\* guard's last valid time, for the local file (lastValidTime) as for the
\* YouTube player (lastYouTubeTimeRef).
C11_LastValidTimeMonotone ==
  [][(videoId' = videoId /\ uploadedVideoUrl' = uploadedVideoUrl) =>
       /\ lastValidTime' >= lastValidTime
       /\ lastYouTubeTimeRef' >= lastYouTubeTimeRef]_vars

\* C12: a seek-check poll of a ready YouTube player whose clock reads less
\* than lastYouTubeTime - 1 s seeks to lastYouTubeTime and leaves
\* lastYouTubeTime unchanged; any other poll issues no seek and sets
\* lastYouTubeTime to max(lastYouTubeTime, current time).
C12_SeekCheckPoll ==
  [][((\E t \in timers : SeekCheckTick(t)) /\ YTLive /\ yt.ready) =>
       IF yt.time < lastYouTubeTimeRef - 10
       THEN yt'.time = lastYouTubeTimeRef /\ lastYouTubeTimeRef' = lastYouTubeTimeRef
       ELSE /\ yt'.time = yt.time
            /\ lastYouTubeTimeRef' = (IF yt.time > lastYouTubeTimeRef
                                      THEN yt.time ELSE lastYouTubeTimeRef)]_vars
C12_Witness ==
  /\ YTLive /\ yt.ready /\ SeekCheckActive
  /\ lastYouTubeTimeRef = 100 /\ yt.time = 89

\* C13: whenever the loaded video is playing its playback guard is armed: the
\* listeners of the local file are attached, or a YouTube seek-check poller
\* is running.
GuardArmed == IF videoMode = "file" THEN listeners ELSE SeekCheckActive
C13_GuardArmedWhilePlaying == Playing => GuardArmed

\* C14: every live sampling interval is the one trackingIntervalRef refers to,
\* so at most one is live.
C14_OneSamplingInterval ==
  /\ \A t \in timers : t.kind = "track" => t.id = trackingIntervalRef
  /\ Cardinality({t \in timers : t.kind = "track"}) <= 1
C14_Witness ==
  /\ Playing /\ showGraph /\ trackingIntervalRef # NoTimer
  /\ Cardinality({t \in timers : t.kind = "track"}) = 1

\* a paused or buffering notification, and a playing notification, of the
\* source on screen
PauseStep ==
  \/ /\ YTLive /\ ~yt'.destroyed /\ yt'.state # yt.state
     /\ yt'.state \in {"paused", "buffering"}
  \/ /\ htmlVideoRef /\ mounted' /\ uploadedVideoUrl' = uploadedVideoUrl
     /\ videoMode' = videoMode
     /\ video.state = "playing" /\ video'.state = "paused"
PlayStep ==
  \/ /\ YTLive /\ ~yt'.destroyed /\ yt.ready
     /\ yt.state # "playing" /\ yt'.state = "playing"
  \/ /\ htmlVideoRef /\ mounted' /\ uploadedVideoUrl' = uploadedVideoUrl
     /\ videoMode' = videoMode
     /\ video.state # "playing" /\ video'.state = "playing"
Paused ==
  \/ videoMode = "youtube" /\ YTLive /\ yt.state \in {"paused", "buffering"}
  \/ htmlVideoRef /\ video.state = "paused"

\* C15: once calibrated, a paused or buffering notification leaves no
\* sampling interval, no sample is appended from a paused state, and a
\* playing notification leaves the sampling interval running; both keep
\* isCalibrated and latestAttention.
C15_PauseResume ==
  [][isCalibrated =>
       /\ PauseStep => /\ ~SamplingActive'
                       /\ isCalibrated' /\ currentAttentionRef' = currentAttentionRef
       /\ PlayStep => /\ SamplingActive'
                      /\ isCalibrated' /\ currentAttentionRef' = currentAttentionRef
       /\ Paused => Len(attentionData') <= Len(attentionData)]_vars
C15_Witness ==
  /\ isCalibrated /\ currentAttentionRef # NoAttention
  /\ htmlVideoRef /\ video.state = "paused" /\ ~showGraph
  /\ attentionData # <<>> /\ ~SamplingActive

\* C16: a step that assigns a video source leaves the Series Buffer empty and
\* showGraph false.
C16_AssignmentClears ==
  [][SourceAssigned => attentionData' = <<>> /\ ~showGraph']_vars
C16_Witness ==
  /\ roundTrip /\ htmlVideoRef /\ video.state = "paused" /\ video.time = 0
  /\ ~showGraph /\ attentionData = <<>>

\* C17: a step that assigns no video source leaves attentionData unchanged or
\* appends exactly one sample at its end.
C17_AppendOnlyWithinSession ==
  [][~SourceAssigned =>
       \/ attentionData' = attentionData
       \/ /\ Len(attentionData') = Len(attentionData) + 1
          /\ SubSeq(attentionData', 1, Len(attentionData)) = attentionData]_vars

\* start requests awaiting their response
InFlight == Len(pendingReady) + pendingUpload
\* a step that loads a video: the YouTube player becomes ready, or a video
\* file is selected
VideoLoaded ==
  \/ YTLive /\ ~yt.ready /\ yt'.ready /\ ~yt'.destroyed
  \/ uploadedVideoUrl' # uploadedVideoUrl /\ uploadedVideoUrl' # NoUrl

\* C18: a step that loads a video issues exactly one start request when
\* isStreaming is false and none when isStreaming is true.
C18_OneStartPerLoad ==
  [][VideoLoaded => InFlight' = InFlight + (IF isStreaming THEN 0 ELSE 1)]_vars

\* a step in which a start request fails: the server refuses it, or the
\* call raises
StartFailed ==
  \E res \in StartResponses \ {"success"} :
    \/ UploadStartResolved(res)
    \/ \E i \in 1..Len(pendingReady) : ReadyStartResolved(i, res)

\* C19: a start request that failed (refused by the server, or the call
\* raised) sets the error message (while mounted), leaves isStreaming as it
\* was and issues no request; a start request is issued only by a step that
\* loads a video.
C19_StartFailure ==
  [][/\ StartFailed =>
          /\ mounted => errorMessage' = "stream"
          /\ isStreaming' = isStreaming
          /\ InFlight' = InFlight - 1
     /\ InFlight' > InFlight => VideoLoaded]_vars

\* the URLs without a video id, the files that are not a video, and a step
\* that submits one of them
InvalidUrls == {url \in Urls : extractVideoId(url) = NoVideo}
InvalidFiles ==
  {file \in FileInputs : file.present /\ ~StartsWith(file.type, <<"video", "/">>)}
InputRejected ==
  \/ \E url \in InvalidUrls : handleUrlSubmit(url)
  \/ \E file \in InvalidFiles : handleFileUpload(file)

\* C20: a rejected input (a URL without a video id, a file that is not a
\* video) sets the error message and changes neither the source, the mode, the
\* series, showGraph, isStreaming, the timers nor the stream requests.
C20_InvalidInputRejected ==
  [][InputRejected =>
       /\ errorMessage' \in {"url", "file"}
       /\ UNCHANGED <<videoId, uploadedVideoUrl, videoMode, attentionData,
                      showGraph, isStreaming, timers, pendingReady,
                      pendingUpload, lastStreamReq>>]_vars
C20_Witness ==
  /\ errorMessage = "file" /\ htmlVideoRef /\ video.state = "playing"
  /\ attentionData # <<>> /\ SamplingActive

\* an 'emotions' event that carries neither calibration_percent nor rel_attention
BareEvents ==
  {msg \in EmotionsEvents : /\ msg.type = "emotions"
                            /\ msg.calibration_percent = Undefined
                            /\ msg.rel_attention = Undefined}
BareEventStep == \E msg \in BareEvents : EmotionsMessage(msg)

\* C21: an 'emotions' event that carries neither calibration_percent nor
\* rel_attention is ignored: the step that processes it leaves the latest
\* attention, isCalibrated and calibrationPercent unchanged, raises no error,
\* appends nothing, and leaves the tracker subscribed for the events after it.
C21_BareEventIgnored ==
  [][BareEventStep =>
       /\ UNCHANGED <<isCalibrated, calibrationPercent, currentAttention,
                      currentAttentionRef, errorMessage, attentionData>>
       /\ mounted']_vars

\* a field-less event has been processed, calibration progress arrived too,
\* and no event has completed calibration
C21_Witness ==
  /\ seen.completion /\ ~seen.attention
  /\ calibrationPercent = 50 /\ ~isCalibrated
  /\ currentAttentionRef = NoAttention
  /\ htmlVideoRef /\ video.state = "playing"

\* a tick of a sampling interval
TickStep == \E t \in timers : TrackTick(t)

\* C22: for the events {calibration_percent: 50}, {calibration_percent: 100},
\* {rel_attention: 0.7} delivered while a video plays, isCalibrated is false
\* after the first and true after the second, no sample exists before the
\* third, and the tick that follows the third appends (playback time, 0.7) as
\* the first sample.
C22_CalibrationThenFirstSample ==
  [][/\ (calibrationPercent = 50 /\ ~seen.attention => ~isCalibrated)
     /\ (calibrationPercent = 100 => isCalibrated)
     /\ (currentAttentionRef = NoAttention => attentionData = <<>>)
     /\ (/\ TickStep /\ mounted /\ Playing /\ SourceLoaded
         /\ calibrationPercent = 100 /\ currentAttentionRef = 7
         /\ attentionData = <<>>
         => attentionData' = <<[time |-> MathRound(ActiveTime),
                                attention |-> 7]>>)]_vars

\* the video reaches its end: YT.PlayerState.ENDED, or 'ended' on the element
EndedStep == onPlayerStateChange("ended") \/ FileEnded

\* C23: while calibration has not completed the series buffer is empty, and a
\* video that ends in that state takes the session to Finished: showGraph is
\* true, no sampling interval is left, the buffer is still empty and no error
\* is raised.
C23_EndedWhileCalibrating ==
  [][/\ (~isCalibrated => attentionData = <<>>)
     /\ (EndedStep /\ ~isCalibrated =>
           /\ showGraph' /\ ~SamplingActive' /\ trackingIntervalRef' = NoTimer
           /\ attentionData' = <<>>
           /\ errorMessage' = errorMessage)]_vars

\* a video that was playing with calibration at 50 percent has ended
C23_Witness ==
  /\ ~isCalibrated /\ calibrationPercent = 50
  /\ videoMode = "youtube" /\ YTLive /\ yt.state = "ended"
  /\ showGraph /\ ~SamplingActive /\ attentionData = <<>>

\* C24: last write wins between metric events and sampling ticks: the
\* attention value of every sample a tick appends is the rel_attention of the
\* most recent reading processed before the tick, never an older one.
C24_LastWriteWins ==
  [][TickStep /\ Len(attentionData') > Len(attentionData) =>
       /\ currentAttention # NoAttention
       /\ attentionData'[Len(attentionData')].attention = currentAttention]_vars

\* two ticks recorded two different readings, the second one after a new event
C24_Witness ==
  /\ Len(attentionData) = 2
  /\ attentionData[1].attention = 0 /\ attentionData[2].attention = 7
  /\ currentAttention = 7

\* C25: the metrics feed adapter is idempotent: from every state and for every
\* 'emotions' event, processing the event twice in a row leaves
\* (isCalibrated, calibrationPercent, latest attention) as processing it once.
C25_HandlerIdempotent ==
  \A msg \in EmotionsEvents :
    EmotionsHandler(EmotionsHandler(FeedState, msg), msg)
      = EmotionsHandler(FeedState, msg)

\* the handler has processed a progress report and a reading, and there are
\* events that still change its state
C25_Witness ==
  /\ calibrationPercent = 50 /\ isCalibrated /\ currentAttention = 0
  /\ \E msg \in EmotionsEvents : EmotionsHandler(FeedState, msg) # FeedState

\* a paused or buffering notification, or 'pause' on the element
PausedNotification ==
  \/ onPlayerStateChange("paused")
  \/ onPlayerStateChange("buffering")
  \/ FilePause

\* C26: stop on a sampling timer that is not running is a no-op. The call
\* returns the timers and the ref as they were; a paused or buffering
\* notification with no active interval leaves trackingIntervalRef null and
\* the buffer, the flags and the other timers unchanged; an ended
\* notification with no active interval changes what its own statements
\* assign (showGraph, the seek-check poller) and nothing through stop.
C26_StopWhenIdle ==
  [][trackingIntervalRef = NoTimer =>
       /\ stopAttentionTracking(TrackState) = TrackState
       /\ (PausedNotification =>
             UNCHANGED <<timers, trackingIntervalRef, attentionData, showGraph,
                         isCalibrated, calibrationPercent, currentAttention,
                         currentAttentionRef, isStreaming, errorMessage,
                         youtubeSeekCheckIntervalRef>>)
       /\ (EndedStep =>
             /\ trackingIntervalRef' = NoTimer
             /\ timers' = ClearSeekCheck(timers)
             /\ UNCHANGED <<attentionData, isCalibrated, calibrationPercent,
                            currentAttention, currentAttentionRef, isStreaming,
                            errorMessage>>)]_vars

\* the player reported buffering while no sampling interval was registered and
\* the seek-check poller, the other timer, is still running
C26_Witness ==
  /\ videoMode = "youtube" /\ YTLive /\ yt.state = "buffering"
  /\ trackingIntervalRef = NoTimer /\ ~SamplingActive /\ SeekCheckActive
  /\ isCalibrated /\ attentionData = <<>> /\ ~showGraph

\* C27: when the tracker unmounts while isStreaming is true, a stop request
\* for the 'emotions' stream is issued, whichever video mode was used.
C27_StopOnUnmount ==
  [][Unmount /\ isStreaming => lastStreamReq' = "stop"]_vars

\* C28: while the tracker stays mounted it issues no stop request: whenever it
\* is mounted with isStreaming true, the last stream request it sent is a
\* start.
C28_NoStopWhileMounted ==
  mounted /\ isStreaming => lastStreamReq = "start"

\* C29: after disconnect() has been called the service creates no WebSocket
\* on its own: from the disconnect() step on no reconnect timer is pending
\* and none fires, whatever connect() calls, socket events and timer firings
\* came before.
C29_NoReconnectAfterDisconnect ==
  [][/\ (~shouldReconnect' => wsTimers' = {})
     /\ (~shouldReconnect => ~\E t \in wsTimers : ReconnectTimerFires(t))]_vars

\* a reconnect timeout with id k is pending
Pending(k) == \E t \in wsTimers : t.id = k

\* C30: a socket that closes while shouldReconnect is true schedules a
\* reconnect attempt 5000 ms later; a scheduled attempt is eventually made
\* unless a connection opens or disconnect() is called first, so attempts
\* repeat after every failed one; and once a connection opens no reconnect
\* timer remains pending.
C30_ReconnectUntilOpen ==
  /\ \A k \in TimeoutIds : Pending(k) ~> ~Pending(k)
  /\ [][/\ ((\E i \in SocketIds : onclose(i)) /\ shouldReconnect =>
             /\ wsTimers' # {}
             /\ \A t \in wsTimers' : t.delay = 5000)
        /\ \A t \in wsTimers \ wsTimers' :
             \/ ReconnectTimerFires(t)
             \/ \E i \in SocketIds : onopen(i)
             \/ disconnect
        /\ ((\E i \in SocketIds : onopen(i)) => wsTimers' = {})]_vars

\* C31: at most one reconnect timer is pending at any time, and a pending
\* reconnect timer is the one reconnectTimer refers to, so that onopen and
\* disconnect() can cancel it.
C31_OneReferencedTimer ==
  /\ Cardinality(wsTimers) <= 1
  /\ \A t \in wsTimers : t.id = reconnectTimer

\* C32: the current socket reference is cleared only by the close of that
\* same socket or by disconnect(); while the socket connect() created is
\* open, the close event of another, earlier socket neither makes
\* isConnected() false nor makes send() drop messages.
C32_LateCloseKeepsSocket ==
  [][/\ (ws # NoSocket /\ ws' = NoSocket => onclose(ws) \/ disconnect)
     /\ (isConnected /\ (\E i \in SocketIds \ {ws} : onclose(i)) =>
           isConnected' /\ send' = "sent")]_vars

\* the elements of a sequence
Range(q) == {q[k] : k \in 1..Len(q)}

\* C33: a received message that parses as JSON is passed exactly once to
\* every handler registered at the time of receipt, whatever the other
\* handlers do with it; a message that fails to parse is passed to no handler
\* and leaves the handler set unchanged; no handler is invoked after it was
\* removed.
C33_DispatchToEveryHandler ==
  [][\A i \in SocketIds, frame \in Frames :
       onmessage(i, frame) =>
         /\ messageHandlers' = messageHandlers
         /\ Range(invoked') \subseteq Range(messageHandlers)
         /\ IF Parses(frame) THEN invoked' = messageHandlers
                             ELSE invoked' = <<>>]_vars

\* the last n arrival numbers up to r, oldest first
LastReceived(r, n) == [k \in 1..n |-> r - n + k]

\* C34: after any sequence of 'signal' messages the buffer holds at most 100
\* points, and they are the most recently received samples in arrival order;
\* a message of another type or with data that is not an array leaves the
\* buffer unchanged.
C34_BufferIsLast100 ==
  [][/\ Len(signalData') <= 100
     /\ signalData' = LastReceived(received', IF received' <= 100
                                              THEN received' ELSE 100)
     /\ \A msg \in SignalMessages :
          SignalMessage(msg) /\ (msg.type # "signal" \/ ~msg.isArray) =>
            signalData' = signalData]_vars

\* more than 100 samples have arrived and the buffer holds the last 100
C34_Witness ==
  /\ received > 100 /\ Len(signalData) = 100
  /\ signalData[1] = received - 99 /\ signalData[100] = received

====
